---- MODULE Spec2Model ----
(***************************************************************************)
(* Profile & document consistency of skillMatchBackend.                    *)
(*                                                                         *)
(* The model follows src/src/controllers/user.controller.ts: each request  *)
(* handler is one action whose body is selected by the handler's position  *)
(* (pc), one awaited statement per step.  The relational store is          *)
(* PostgreSQL under read-committed isolation: a statement issued on the    *)
(* pool sees and changes the committed rows; a statement issued on a       *)
(* transaction client sees the committed rows plus the transaction's own   *)
(* writes, and its writes become visible to others at COMMIT.  The         *)
(* artifact store is the uploads/ directory written by multer before the   *)
(* handler runs.                                                           *)
(***************************************************************************)
EXTENDS Integers, FiniteSets, Sequences, TLC

(* ------------------------------ bounds -------------------------------- *)
MaxRequests == 3
MaxFaults == 2

Procs == {1, 2}
User == 1
OtherUser == 2

(* ------------------------------ values -------------------------------- *)
NullText == "<null>"
NullNum == -1
NullUrl == << >>
NoFile == 0

\* storage URL built from the multer file name: `/uploads/${file.filename}`
StorageUrl(f) == <<"/uploads/", f>>

\* path.join(__dirname, '../../uploads', path.basename(url)): the file of the
\* uploads directory a URL names
Basename(url) == url[Len(url)]

\* path.join(__dirname, '../../', storage_url): the file of the uploads
\* directory a stored URL names, NoFile when it points elsewhere
FilePathOf(url) == IF Len(url) = 2 /\ url[1] = "/uploads/" THEN url[2] ELSE NoFile

Min(a, b) == IF a < b THEN a ELSE b
Max(a, b) == IF a > b THEN a ELSE b

(* --------------------------- completion score -------------------------- *)
\* JavaScript truthiness of a text column, of a numeric column, of a URL
TruthyText(v) == v # NullText /\ v # ""
TruthyNum(v) == v # NullNum /\ v # 0
TruthyUrl(u) == u # NullUrl

Pts(b, w) == IF b THEN w ELSE 0

BasicInfoScore(pr) ==
    Pts(TruthyText(pr.job_title), 5) + Pts(TruthyText(pr.location), 5)
    + Pts(TruthyNum(pr.years_of_experience), 5)
    + Pts(TruthyText(pr.experience_level), 5)
    + Pts(TruthyText(pr.primary_industry), 5)

SummariesScore(pr) ==
    Pts(TruthyText(pr.profile_summary), 10)
    + Pts(TruthyText(pr.professional_summary), 10)

LinkScore(pr) ==
    Min(Pts(TruthyText(pr.website_url), 3) + Pts(TruthyText(pr.linkedin_url), 4)
        + Pts(TruthyText(pr.github_url), 3), 10)

ImageScore(pr) == Pts(TruthyUrl(pr.profile_image_url), 5)

\* variant: the experience points are added without the count > 0 test
ExperienceScoreUnguarded(n) == Min(15, 5 + n * 2)

ExperienceScore(n) == IF n > 0 THEN Min(15, 5 + n * 2) ELSE 0

\* twice the education points: min(10, 5 + 2.5 n) has halves
EducationScore2(n) == IF n > 0 THEN Min(20, 10 + 5 * n) ELSE 0

\* variant: the cap of the skill points is taken by remainder
SkillsScoreWrapping(n) == IF n > 0 THEN (3 + n * 1) % 16 ELSE 0

SkillsScore(n) == IF n > 0 THEN Min(15, 3 + n * 1) ELSE 0

\* variant: 10 points for each resume
ResumeScorePerResume(n) == 10 * n

ResumeScore(n) == IF n > 0 THEN 10 ELSE 0

\* twice completionPercentage before rounding
CompletionPercentage2(pr, c) ==
    2 * (BasicInfoScore(pr) + SummariesScore(pr) + LinkScore(pr) + ImageScore(pr)
         + ExperienceScore(c.experience_count) + SkillsScore(c.skill_count)
         + ResumeScore(c.resume_count))
    + EducationScore2(c.education_count)

\* Math.round of a half-integer given as its double: floor(x + 0.5)
MathRound2(x2) == (x2 + 1) \div 2

\* variant: the sum starts from the stored percentage instead of 0
FinalPercentageAccumulating(pr, c) ==
    Max(0, Min(100, pr.profile_completion + MathRound2(CompletionPercentage2(pr, c))))

FinalPercentage(pr, c) == Max(0, Min(100, MathRound2(CompletionPercentage2(pr, c))))

(* ------------------------------- state -------------------------------- *)
VARIABLES
    docs,        \* committed rows of user_documents
    profile,     \* committed user_profiles row of User
    entries,     \* committed ids of user_skills / user_experiences / user_educations
    files,       \* files present in the uploads directory
    req,         \* per worker: the request it handles and its locals
    docSeq,      \* user_documents id sequence
    nReq,        \* requests started so far (also the multer file name counter)
    faultsLeft,  \* database failures the environment may still inject
    maxActive,   \* workers of the pool: requests that may be in flight together
    fsFaultsLeft \* failures of fs.unlinkSync the environment may still inject

vars == <<docs, profile, entries, files, req, docSeq, nReq, faultsLeft, maxActive, fsFaultsLeft>>

Tables == {"user_skills", "user_experiences", "user_educations"}

EmptyProfile ==
    [job_title |-> NullText, location |-> NullText, years_of_experience |-> NullNum,
     experience_level |-> NullText, primary_industry |-> NullText,
     profile_summary |-> NullText, professional_summary |-> NullText,
     website_url |-> NullText, linkedin_url |-> NullText, github_url |-> NullText,
     profile_image_url |-> NullUrl, profile_completion |-> 0]

\* request bodies of PUT /profile: a field left out is undefined; a client may
\* send fields the handler does not read, such as profile_completion
EmptyBody ==
    [profile_completion |-> NullNum,
     first_name |-> NullText, last_name |-> NullText,
     job_title |-> NullText, location |-> NullText, profile_summary |-> NullText,
     professional_summary |-> NullText, years_of_experience |-> NullNum,
     experience_level |-> NullText, primary_industry |-> NullText,
     website_url |-> NullText, linkedin_url |-> NullText, github_url |-> NullText]

Row(id, user, type, url, default) ==
    [id |-> id, user_id |-> user, document_type |-> type, storage_url |-> url,
     is_default_resume |-> default]

IdleReq ==
    [op |-> "none", pc |-> "idle", file |-> NoFile, txOpen |-> FALSE,
     txAborted |-> FALSE, newId |-> 0, ins |-> {}, clr |-> {},
     oldUrl |-> NullUrl, newUrl |-> NullUrl, finalUrl |-> NullUrl,
     body |-> EmptyBody, pend |-> EmptyProfile, hasPend |-> FALSE,
     target |-> 0, fileRecord |-> NullUrl, table |-> "",
     withClient |-> FALSE, ret |-> "", onErr |-> "",
     counts |-> [experience_count |-> 0, education_count |-> 0, skill_count |-> 0,
                 resume_count |-> 0],
     prof |-> EmptyProfile, wroteScore |-> FALSE,
     result |-> "none",
     \* history of the request, for the properties
     failedAt |-> "", stored |-> FALSE, committed |-> FALSE,
     begins |-> 0, commits |-> 0, rollbacks |-> 0, rollbackOk |-> FALSE,
     acquired |-> 0, released |-> 0,
     unlinked |-> {}, unlinkedInTx |-> {}, unlinkFailed |-> FALSE,
     rid |-> 0, openAtCommit |-> {}, imgAtStart |-> NullUrl,
     startedAfter |-> {}]

Active == {p \in Procs : req[p].pc \notin {"idle", "done"}}

\* a worker of the pool takes the next request
CanStart(p) ==
    /\ req[p].pc \in {"idle", "done"}
    /\ nReq < MaxRequests
    /\ p <= maxActive

\* outcomes of one database statement: TRUE = it executes, FALSE = it throws
DbOutcomes == IF faultsLeft > 0 THEN {TRUE, FALSE} ELSE {TRUE}

Fault(ok) == faultsLeft' = IF ok THEN faultsLeft ELSE faultsLeft - 1

SetReq(p, r) == req' = [req EXCEPT ![p] = r]


(* --------------------------- relational store -------------------------- *)
\* rows a statement on worker p's transaction client sees: committed rows plus
\* the transaction's own inserts
VisibleDocs(r) == docs \cup r.ins

\* variant: the clearing UPDATE has no `id != $2` condition
OtherThanAny(row, newId) == TRUE

\* AND id != $2
OtherThan(row, newId) == row.id # newId

\* variant: the clearing UPDATE matches no row
RowsToClearNone(rows, userId, newId) == {}

\* UPDATE user_documents SET is_default_resume = FALSE
\*  WHERE user_id = $1 AND id != $2 AND document_type = 'resume': the rows it changes
RowsToClear(rows, userId, newId) ==
    {row.id : row \in {x \in rows : /\ x.user_id = userId
                                    /\ OtherThan(x, newId)
                                    /\ x.document_type = "resume"}}

\* variant: the cleared rows are removed instead of demoted
ApplyTxDropCleared(d, ins, clr) == {row \in d : row.id \notin clr} \cup ins

\* COMMIT of a transaction that inserted ins and cleared the flag of the rows clr
ApplyTx(d, ins, clr) ==
    {IF row.id \in clr THEN [row EXCEPT !.is_default_resume = FALSE] ELSE row : row \in d}
    \cup ins

ResumesOf(d, userId) == {row \in d : row.user_id = userId /\ row.document_type = "resume"}

\* the four COUNT(*) subqueries of updateProfileCompletion
CountsOf(d, e, userId) ==
    [experience_count |-> Cardinality(e["user_experiences"]),
     education_count |-> Cardinality(e["user_educations"]),
     skill_count |-> Cardinality(e["user_skills"]),
     resume_count |-> Cardinality(ResumesOf(d, userId))]

\* fs.existsSync(path) followed by fs.unlinkSync(path)
UnlinkIfExists(fs, f) == fs \ {f}

\* outcomes of fs.unlinkSync on an existing file: TRUE = removed, FALSE = it throws
FsOutcomes(f) == IF fsFaultsLeft > 0 /\ f \in files THEN {TRUE, FALSE} ELSE {TRUE}

FsFault(fsOk) == fsFaultsLeft' = IF fsOk THEN fsFaultsLeft ELSE fsFaultsLeft - 1

\* variant: the error of unlinkSync is thrown on
RethrowUnlinkError(continuation, thrown) == thrown

\* try { ... fs.unlinkSync(path) } catch (unlinkError) { logger.error(...) }:
\* what follows a failed unlink
CatchUnlinkError(continuation, thrown) == continuation

(* ------------------------------ handlers ------------------------------- *)
\* requests of the other workers whose transaction is open
OpenTransactions(p) == {req[q].rid : q \in {x \in Procs \ {p} : req[x].txOpen}}

\* another open transaction holds the row lock of the profile row
RowLocked(p) == \E q \in Procs \ {p} : req[q].txOpen /\ req[q].hasPend

\* a thrown error enters the handler's inner catch block
ToCatch(r, at) ==
    [r EXCEPT !.pc = "rollback",
              !.failedAt = IF r.failedAt = "" THEN at ELSE r.failedAt,
              !.txAborted = r.txOpen]

\* the handler has returned: its locals are gone, its history is kept
Ended(r, result) ==
    [r EXCEPT !.pc = "done", !.result = result,
              !.ins = {}, !.clr = {}, !.hasPend = FALSE, !.pend = EmptyProfile,
              !.body = EmptyBody, !.prof = EmptyProfile,
              !.counts = IdleReq.counts, !.withClient = FALSE, !.ret = "", !.onErr = "",
              !.fileRecord = NullUrl]

\* variant: the client is released on the success path only
EndWithErrorNoRelease(r) == Ended(r, "error")

\* `finally { client.release() }` then the outer catch: next(error)
EndWithError(r) == Ended([r EXCEPT !.released = r.released + 1], "error")

\* the requests of the other workers that have ended when worker p starts one
EndedRequests(p) == {req[q].rid : q \in {x \in Procs \ {p} : req[x].pc = "done"}}

\* variant: the row is inserted without the default flag
InsertedResumeNotDefault(id, userId, file) ==
    Row(id, userId, "resume", StorageUrl(file), FALSE)

\* INSERT INTO user_documents (..., is_default_resume) VALUES (..., true)
InsertedResume(id, userId, file) == Row(id, userId, "resume", StorageUrl(file), TRUE)

\* variant: the catch block removes no file
UploadCatchNothing(r) == NoFile

\* the file the inner catch block of uploadResume removes
UploadCatchTarget(r) == r.file

\* uploadResume (POST /resumes behind upload.single('resumeFile'))
uploadResume(p) ==
    LET r == req[p] IN
    \E ok \in DbOutcomes :
    CASE r.pc \in {"idle", "done"} ->
           \* multer stores the file, then the handler starts
           /\ CanStart(p) /\ ok
           /\ nReq' = nReq + 1
           /\ \E hasFile \in BOOLEAN :
              IF hasFile
              THEN /\ files' = files \cup {nReq + 1}
                   /\ SetReq(p, [IdleReq EXCEPT !.op = "uploadResume", !.pc = "connect",
                                                !.file = nReq + 1, !.stored = TRUE,
                                                !.rid = nReq + 1,
                                                !.startedAfter = EndedRequests(p)])
              ELSE /\ files' = files
                   /\ SetReq(p, [IdleReq EXCEPT !.op = "uploadResume", !.pc = "done",
                                                !.result = "badRequest",
                                                !.rid = nReq + 1])
           /\ UNCHANGED <<docs, profile, entries, docSeq, faultsLeft, maxActive, fsFaultsLeft>>
      [] r.op = "uploadResume" /\ r.pc = "connect" ->
           \* const client = await pool.connect(), outside the inner try
           /\ Fault(ok)
           /\ SetReq(p, IF ok THEN [r EXCEPT !.pc = "begin", !.acquired = 1]
                        ELSE Ended([r EXCEPT !.failedAt = "connect"], "error"))
           /\ UNCHANGED <<docs, profile, entries, files, docSeq, nReq, maxActive, fsFaultsLeft>>
      [] r.op = "uploadResume" /\ r.pc = "begin" ->
           /\ Fault(ok)
           /\ SetReq(p, IF ok THEN [r EXCEPT !.pc = "insert", !.txOpen = TRUE, !.begins = 1]
                        ELSE ToCatch(r, "begin"))
           /\ UNCHANGED <<docs, profile, entries, files, docSeq, nReq, maxActive, fsFaultsLeft>>
      [] r.op = "uploadResume" /\ r.pc = "insert" ->
           \* INSERT ... is_default_resume = true RETURNING *
           /\ Fault(ok)
           /\ docSeq' = IF ok THEN docSeq + 1 ELSE docSeq
           /\ SetReq(p, IF ok
                        THEN [r EXCEPT !.pc = "clear", !.newId = docSeq + 1,
                                       !.ins = {InsertedResume(docSeq + 1, User, r.file)}]
                        ELSE ToCatch(r, "insert"))
           /\ UNCHANGED <<docs, profile, entries, files, nReq, maxActive, fsFaultsLeft>>
      [] r.op = "uploadResume" /\ r.pc = "clear" ->
           /\ Fault(ok)
           /\ SetReq(p, IF ok
                        THEN [r EXCEPT !.pc = "commit",
                                       !.clr = RowsToClear(VisibleDocs(r), User, r.newId)]
                        ELSE ToCatch(r, "clear"))
           /\ UNCHANGED <<docs, profile, entries, files, docSeq, nReq, maxActive, fsFaultsLeft>>
      [] r.op = "uploadResume" /\ r.pc = "commit" ->
           /\ Fault(ok)
           /\ docs' = IF ok THEN ApplyTx(docs, r.ins, r.clr) ELSE docs
           /\ SetReq(p, IF ok
                        THEN [r EXCEPT !.pc = "score_counts", !.txOpen = FALSE,
                                       !.committed = TRUE, !.commits = r.commits + 1,
                                       !.ins = {}, !.clr = {},
                                       !.openAtCommit = OpenTransactions(p),
                                       !.withClient = FALSE, !.ret = "respond",
                                       !.onErr = "rollback"]
                        ELSE ToCatch(r, "commit"))
           /\ UNCHANGED <<profile, entries, files, docSeq, nReq, maxActive, fsFaultsLeft>>
      [] r.op = "uploadResume" /\ r.pc = "respond" ->
           /\ ok
           \* res.status(201), then finally { client.release() }
           /\ SetReq(p, Ended([r EXCEPT !.released = r.released + 1], "success"))
           /\ UNCHANGED <<docs, profile, entries, files, docSeq, nReq, faultsLeft, maxActive, fsFaultsLeft>>
      [] r.op = "uploadResume" /\ r.pc = "rollback" ->
           \* catch: await client.query('ROLLBACK'); a throw here leaves the catch block
           /\ Fault(ok)
           /\ SetReq(p, IF ok
                        THEN [r EXCEPT !.pc = "unlink_new", !.txOpen = FALSE,
                                       !.txAborted = FALSE, !.ins = {}, !.clr = {},
                                       !.rollbacks = r.rollbacks + 1, !.rollbackOk = TRUE]
                        ELSE EndWithError([r EXCEPT !.rollbacks = r.rollbacks + 1]))
           /\ UNCHANGED <<docs, profile, entries, files, docSeq, nReq, maxActive, fsFaultsLeft>>
      [] r.op = "uploadResume" /\ r.pc = "unlink_new" ->
           /\ ok
           \* if (file) { if (fs.existsSync(filePath)) fs.unlinkSync(filePath) }; throw error
           /\ \E fsOk \in FsOutcomes(UploadCatchTarget(r)) :
                /\ FsFault(fsOk)
                /\ files' = IF fsOk THEN UnlinkIfExists(files, UploadCatchTarget(r))
                            ELSE files
                /\ SetReq(p, EndWithError(
                       [r EXCEPT !.unlinked = r.unlinked \cup (files \ files'),
                                 !.unlinkFailed = ~fsOk,
                                 !.failedAt = IF fsOk THEN r.failedAt
                                              ELSE CatchUnlinkError(r.failedAt, "unlink")]))
           /\ UNCHANGED <<docs, profile, entries, docSeq, nReq, faultsLeft, maxActive>>
      [] OTHER -> FALSE

\* updateProfileCompletion(userId, dbClient?): count query, profile query, score write
updateProfileCompletion(p) ==
    LET r == req[p]
        seen == IF r.withClient /\ r.hasPend THEN r.pend ELSE profile
        \* catch: rethrow only when no client was passed
        failed(at) == IF r.withClient
                      THEN [r EXCEPT !.pc = r.ret, !.txAborted = r.txOpen,
                                     !.failedAt = IF r.failedAt = "" THEN at ELSE r.failedAt]
                      ELSE [ToCatch(r, at) EXCEPT !.pc = r.onErr]
    IN
    \E ok \in DbOutcomes :
    CASE r.pc = "score_counts" ->
           /\ Fault(ok)
           /\ SetReq(p, IF ok THEN [r EXCEPT !.pc = "score_profile",
                                             !.counts = CountsOf(docs, entries, User)]
                        ELSE failed("score_counts"))
           /\ UNCHANGED <<docs, profile, entries, files, docSeq, nReq, maxActive, fsFaultsLeft>>
      [] r.pc = "score_profile" ->
           /\ Fault(ok)
           /\ SetReq(p, IF ok THEN [r EXCEPT !.pc = "score_write", !.prof = seen]
                        ELSE failed("score_profile"))
           /\ UNCHANGED <<docs, profile, entries, files, docSeq, nReq, maxActive, fsFaultsLeft>>
      [] r.pc = "score_write" ->
           \* UPDATE user_profiles SET profile_completion = $1 WHERE user_id = $2;
           \* it waits while another transaction holds the row
           /\ ~RowLocked(p)
           /\ Fault(ok)
           /\ profile' = IF ok /\ ~r.withClient
                         THEN [profile EXCEPT !.profile_completion =
                                                  FinalPercentage(r.prof, r.counts)]
                         ELSE profile
           /\ SetReq(p, IF ok
                        THEN [r EXCEPT !.pc = r.ret, !.wroteScore = TRUE,
                                       !.hasPend = r.withClient,
                                       !.pend = IF r.withClient
                                                THEN [seen EXCEPT !.profile_completion =
                                                         FinalPercentage(r.prof, r.counts)]
                                                ELSE r.pend]
                        ELSE failed("score_write"))
           /\ UNCHANGED <<docs, entries, files, docSeq, nReq, maxActive, fsFaultsLeft>>
      [] OTHER -> FALSE


\* ids a DELETE /resumes/:id request may name
TargetIds == 1 .. MaxRequests

\* variant: the SELECT does not test document_type
ResumeToDeleteAnyType(d, id, userId) == {row \in d : row.id = id /\ row.user_id = userId}

\* SELECT id, storage_url FROM user_documents
\*  WHERE id = $1 AND user_id = $2 AND document_type = 'resume'
ResumeToDelete(d, id, userId) ==
    {row \in d : /\ row.id = id /\ row.user_id = userId
                 /\ row.document_type = "resume"}

\* variant: the DELETE does not test the id
DeletedRowsOfUser(d, id, userId) == {row \in d : row.user_id = userId}

\* DELETE FROM user_documents WHERE id = $1 AND user_id = $2: the rows removed
DeletedRows(d, id, userId) == {row \in d : row.id = id /\ row.user_id = userId}

\* variant: the row count of the DELETE is not looked at
NoRowDeletedIgnored(hit) == FALSE

\* if (deleteResult.rowCount === 0)
NoRowDeleted(hit) == hit = {}

\* deleteResume (DELETE /resumes/:id): every statement runs on the pool
deleteResume(p) ==
    LET r == req[p]
        found == ResumeToDelete(docs, r.target, User)
        hit == DeletedRows(docs, r.target, User)
    IN
    \E ok \in DbOutcomes :
    CASE r.pc \in {"idle", "done"} ->
           /\ CanStart(p) /\ ok
           /\ nReq' = nReq + 1
           /\ \E id \in TargetIds :
                SetReq(p, [IdleReq EXCEPT !.op = "deleteResume", !.pc = "select",
                                          !.target = id, !.rid = nReq + 1,
                                          !.startedAfter = EndedRequests(p)])
           /\ UNCHANGED <<docs, profile, entries, files, docSeq, faultsLeft, maxActive, fsFaultsLeft>>
      [] r.op = "deleteResume" /\ r.pc = "select" ->
           \* SELECT id, storage_url ... WHERE id = $1 AND user_id = $2 AND type = 'resume'
           /\ Fault(ok)
           /\ SetReq(p, IF ~ok THEN Ended([r EXCEPT !.failedAt = "select"], "error")
                        ELSE IF found = {} THEN Ended(r, "notFound")
                        ELSE [r EXCEPT !.pc = "delete",
                                       !.fileRecord = (CHOOSE row \in found : TRUE).storage_url])
           /\ UNCHANGED <<docs, profile, entries, files, docSeq, nReq, maxActive, fsFaultsLeft>>
      [] r.op = "deleteResume" /\ r.pc = "delete" ->
           \* DELETE FROM user_documents WHERE id = $1 AND user_id = $2
           /\ Fault(ok)
           /\ docs' = IF ok THEN docs \ hit ELSE docs
           /\ SetReq(p, IF ~ok THEN Ended([r EXCEPT !.failedAt = "delete"], "error")
                        ELSE IF NoRowDeleted(hit) THEN Ended(r, "notFound")
                        ELSE [r EXCEPT !.pc = "unlink", !.committed = TRUE])
           /\ UNCHANGED <<profile, entries, files, docSeq, nReq, maxActive, fsFaultsLeft>>
      [] r.op = "deleteResume" /\ r.pc = "unlink" ->
           /\ ok
           /\ \E fsOk \in FsOutcomes(FilePathOf(r.fileRecord)) :
                /\ FsFault(fsOk)
                /\ files' = IF fsOk THEN UnlinkIfExists(files, FilePathOf(r.fileRecord))
                            ELSE files
                /\ SetReq(p, [r EXCEPT !.pc = IF fsOk THEN "score_counts"
                                              ELSE CatchUnlinkError("score_counts",
                                                                    "outer_catch"),
                                       !.withClient = FALSE,
                                       !.ret = "respond", !.onErr = "outer_catch",
                                       !.unlinked = r.unlinked \cup (files \ files'),
                                       !.unlinkFailed = ~fsOk])
           /\ UNCHANGED <<docs, profile, entries, docSeq, nReq, faultsLeft, maxActive>>
      [] r.op = "deleteResume" /\ r.pc = "respond" ->
           /\ ok
           /\ SetReq(p, Ended(r, "success"))
           /\ UNCHANGED <<docs, profile, entries, files, docSeq, nReq, faultsLeft, maxActive, fsFaultsLeft>>
      [] r.op = "deleteResume" /\ r.pc = "outer_catch" ->
           /\ ok
           /\ SetReq(p, Ended(r, "error"))
           /\ UNCHANGED <<docs, profile, entries, files, docSeq, nReq, faultsLeft, maxActive, fsFaultsLeft>>
      [] OTHER -> FALSE

(* ------------------ skills, experiences, educations ------------------- *)
\* skills of the catalog, and the skill ids a request may name
Catalog == {1}
SkillIds == {1, 2}

\* rows of user_skills are matched by skill_id, rows of user_experiences and
\* user_educations by id
EntryRow(id, key) == [id |-> id, key |-> key]

Matching(e, table, key) == {row \in e[table] : row.key = key}

\* addSkill / addExperience / addEducation: [catalog and duplicate checks,]
\* INSERT, [SELECT of the added row,] updateProfileCompletion(userId)
AddEntry(p, op, table, keys, checked) ==
    LET r == req[p] IN
    \E ok \in DbOutcomes :
    CASE r.pc \in {"idle", "done"} ->
           /\ CanStart(p) /\ ok
           /\ nReq' = nReq + 1
           /\ \E k \in keys :
                SetReq(p, [IdleReq EXCEPT !.op = op, !.table = table, !.rid = nReq + 1,
                                          !.pc = IF checked THEN "check_skill" ELSE "insert",
                                          !.target = IF checked THEN k ELSE nReq + 1])
           /\ UNCHANGED <<docs, profile, entries, files, docSeq, faultsLeft, maxActive, fsFaultsLeft>>
      [] r.op = op /\ r.pc = "check_skill" ->
           \* SELECT id FROM skills WHERE id = $1
           /\ Fault(ok)
           /\ SetReq(p, IF ~ok THEN Ended([r EXCEPT !.failedAt = "check_skill"], "error")
                        ELSE IF r.target \notin Catalog THEN Ended(r, "notFound")
                        ELSE [r EXCEPT !.pc = "check_existing"])
           /\ UNCHANGED <<docs, profile, entries, files, docSeq, nReq, maxActive, fsFaultsLeft>>
      [] r.op = op /\ r.pc = "check_existing" ->
           \* SELECT id FROM user_skills WHERE user_id = $1 AND skill_id = $2
           /\ Fault(ok)
           /\ SetReq(p, IF ~ok THEN Ended([r EXCEPT !.failedAt = "check_existing"], "error")
                        ELSE IF Matching(entries, table, r.target) # {}
                             THEN Ended(r, "badRequest")
                        ELSE [r EXCEPT !.pc = "insert"])
           /\ UNCHANGED <<docs, profile, entries, files, docSeq, nReq, maxActive, fsFaultsLeft>>
      [] r.op = op /\ r.pc = "insert" ->
           /\ Fault(ok)
           /\ entries' = IF ok THEN [entries EXCEPT ![table] = @ \cup {EntryRow(r.rid, r.target)}]
                         ELSE entries
           /\ SetReq(p, IF ~ok THEN Ended([r EXCEPT !.failedAt = "insert"], "error")
                        ELSE [r EXCEPT !.pc = IF checked THEN "select_added" ELSE "score_counts",
                                       !.committed = TRUE, !.withClient = FALSE,
                                       !.ret = "respond", !.onErr = "outer_catch"])
           /\ UNCHANGED <<docs, profile, files, docSeq, nReq, maxActive, fsFaultsLeft>>
      [] r.op = op /\ r.pc = "select_added" ->
           /\ Fault(ok)
           /\ SetReq(p, IF ~ok THEN Ended([r EXCEPT !.failedAt = "select_added"], "error")
                        ELSE [r EXCEPT !.pc = "score_counts"])
           /\ UNCHANGED <<docs, profile, entries, files, docSeq, nReq, maxActive, fsFaultsLeft>>
      [] r.op = op /\ r.pc = "respond" ->
           /\ ok
           /\ SetReq(p, Ended(r, "success"))
           /\ UNCHANGED <<docs, profile, entries, files, docSeq, nReq, faultsLeft, maxActive, fsFaultsLeft>>
      [] r.op = op /\ r.pc = "outer_catch" ->
           /\ ok
           /\ SetReq(p, Ended(r, "error"))
           /\ UNCHANGED <<docs, profile, entries, files, docSeq, nReq, faultsLeft, maxActive, fsFaultsLeft>>
      [] OTHER -> FALSE

\* removeSkill / deleteExperience / deleteEducation: existence check, DELETE,
\* updateProfileCompletion(userId)
DeleteEntry(p, op, table, keys) ==
    LET r == req[p] IN
    \E ok \in DbOutcomes :
    CASE r.pc \in {"idle", "done"} ->
           /\ CanStart(p) /\ ok
           /\ nReq' = nReq + 1
           /\ \E k \in keys :
                SetReq(p, [IdleReq EXCEPT !.op = op, !.table = table, !.rid = nReq + 1,
                                          !.pc = "select", !.target = k])
           /\ UNCHANGED <<docs, profile, entries, files, docSeq, faultsLeft, maxActive, fsFaultsLeft>>
      [] r.op = op /\ r.pc = "select" ->
           /\ Fault(ok)
           /\ SetReq(p, IF ~ok THEN Ended([r EXCEPT !.failedAt = "select"], "error")
                        ELSE IF Matching(entries, table, r.target) = {}
                             THEN Ended(r, "notFound")
                        ELSE [r EXCEPT !.pc = "delete"])
           /\ UNCHANGED <<docs, profile, entries, files, docSeq, nReq, maxActive, fsFaultsLeft>>
      [] r.op = op /\ r.pc = "delete" ->
           /\ Fault(ok)
           /\ entries' = IF ok THEN [entries EXCEPT ![table] = @ \ Matching(entries, table, r.target)]
                         ELSE entries
           /\ SetReq(p, IF ~ok THEN Ended([r EXCEPT !.failedAt = "delete"], "error")
                        ELSE IF Matching(entries, table, r.target) = {}
                             THEN Ended(r, "notFound")
                        ELSE [r EXCEPT !.pc = "score_counts", !.committed = TRUE,
                                       !.withClient = FALSE, !.ret = "respond",
                                       !.onErr = "outer_catch"])
           /\ UNCHANGED <<docs, profile, files, docSeq, nReq, maxActive, fsFaultsLeft>>
      [] r.op = op /\ r.pc = "respond" ->
           /\ ok
           /\ SetReq(p, Ended(r, "success"))
           /\ UNCHANGED <<docs, profile, entries, files, docSeq, nReq, faultsLeft, maxActive, fsFaultsLeft>>
      [] r.op = op /\ r.pc = "outer_catch" ->
           /\ ok
           /\ SetReq(p, Ended(r, "error"))
           /\ UNCHANGED <<docs, profile, entries, files, docSeq, nReq, faultsLeft, maxActive, fsFaultsLeft>>
      [] OTHER -> FALSE

\* ids a DELETE /experiences/:id or /educations/:id request may name
EntryIds == 1 .. MaxRequests

addSkill(p) == AddEntry(p, "addSkill", "user_skills", SkillIds, TRUE)
removeSkill(p) == DeleteEntry(p, "removeSkill", "user_skills", SkillIds)
addExperience(p) == AddEntry(p, "addExperience", "user_experiences", {0}, FALSE)
deleteExperience(p) == DeleteEntry(p, "deleteExperience", "user_experiences", EntryIds)
addEducation(p) == AddEntry(p, "addEducation", "user_educations", {0}, FALSE)
deleteEducation(p) == DeleteEntry(p, "deleteEducation", "user_educations", EntryIds)

(* ---------------------------- updateProfile ---------------------------- *)
\* placeholders $1..$12 of profileUpdateQuery and the values passed with it
ProfileUpdatePlaceholders == 12
ProfileUpdateValues == 11

\* variant: the statement is passed the user id as well
ProfileUpdateBindsAll == ProfileUpdateValues + 1 = ProfileUpdatePlaceholders

\* the driver binds a statement only when it gets one value per placeholder
ProfileUpdateBinds == ProfileUpdateValues = ProfileUpdatePlaceholders

CoalesceText(new, old) == IF new = NullText THEN old ELSE new
CoalesceNum(new, old) == IF new = NullNum THEN old ELSE new

\* the row profileUpdateQuery writes
ProfileUpdate(old, b, finalImageUrl) ==
    [job_title |-> CoalesceText(b.job_title, old.job_title),
     location |-> CoalesceText(b.location, old.location),
     profile_summary |-> CoalesceText(b.profile_summary, old.profile_summary),
     professional_summary |-> CoalesceText(b.professional_summary, old.professional_summary),
     years_of_experience |-> CoalesceNum(b.years_of_experience, old.years_of_experience),
     experience_level |-> CoalesceText(b.experience_level, old.experience_level),
     primary_industry |-> CoalesceText(b.primary_industry, old.primary_industry),
     website_url |-> CoalesceText(b.website_url, old.website_url),
     linkedin_url |-> CoalesceText(b.linkedin_url, old.linkedin_url),
     github_url |-> CoalesceText(b.github_url, old.github_url),
     profile_image_url |-> finalImageUrl,
     profile_completion |-> old.profile_completion]

\* newProfileImageUrl ?? oldProfileImageUrl
FinalImageUrl(newUrl, oldUrl) == IF newUrl # NullUrl THEN newUrl ELSE oldUrl

\* a profile_completion value a client puts in its request body
ClientCompletion == 77

\* request bodies of PUT /profile
Bodies ==
    {EmptyBody,
     [EmptyBody EXCEPT !.profile_completion = ClientCompletion,
                       !.first_name = "Ada", !.job_title = "Engineer",
                       !.location = "Nairobi"]}

\* if (first_name || last_name)
HasName(b) == TruthyText(b.first_name) \/ TruthyText(b.last_name)

\* variant: the catch block removes the superseded image
UpdateCatchOld(r) == r.oldUrl

\* the file the inner catch block of updateProfile removes
UpdateCatchTarget(r) == r.newUrl

\* updateProfile (PUT /profile behind upload.single('profileImage'))
updateProfile(p) ==
    LET r == req[p]
        seen == IF r.hasPend THEN r.pend ELSE profile
        afterImage == IF HasName(r.body) THEN "update_users" ELSE "update_profile"
        final == FinalImageUrl(r.newUrl, r.oldUrl)
        supersedes == r.newUrl # NullUrl /\ r.oldUrl # NullUrl /\ r.newUrl # r.oldUrl
    IN
    \E ok \in DbOutcomes :
    CASE r.pc \in {"idle", "done"} ->
           /\ CanStart(p) /\ ok
           /\ nReq' = nReq + 1
           /\ \E hasFile \in BOOLEAN, b \in Bodies :
                /\ files' = IF hasFile THEN files \cup {nReq + 1} ELSE files
                /\ SetReq(p, [IdleReq EXCEPT !.op = "updateProfile", !.pc = "connect",
                                             !.file = IF hasFile THEN nReq + 1 ELSE NoFile,
                                             !.stored = hasFile, !.body = b,
                                             !.rid = nReq + 1,
                                             !.imgAtStart = profile.profile_image_url])
           /\ UNCHANGED <<docs, profile, entries, docSeq, faultsLeft, maxActive, fsFaultsLeft>>
      [] r.op = "updateProfile" /\ r.pc = "connect" ->
           /\ Fault(ok)
           /\ SetReq(p, IF ok THEN [r EXCEPT !.pc = "begin", !.acquired = 1]
                        ELSE Ended([r EXCEPT !.failedAt = "connect"], "error"))
           /\ UNCHANGED <<docs, profile, entries, files, docSeq, nReq, maxActive, fsFaultsLeft>>
      [] r.op = "updateProfile" /\ r.pc = "begin" ->
           /\ Fault(ok)
           /\ SetReq(p, IF ok
                        THEN [r EXCEPT !.pc = IF r.file # NoFile THEN "select_old"
                                              ELSE afterImage,
                                       !.txOpen = TRUE, !.begins = 1]
                        ELSE ToCatch(r, "begin"))
           /\ UNCHANGED <<docs, profile, entries, files, docSeq, nReq, maxActive, fsFaultsLeft>>
      [] r.op = "updateProfile" /\ r.pc = "select_old" ->
           \* SELECT profile_image_url; newProfileImageUrl is assigned after it
           /\ Fault(ok)
           /\ SetReq(p, IF ok
                        THEN [r EXCEPT !.pc = afterImage,
                                       !.oldUrl = seen.profile_image_url,
                                       !.newUrl = StorageUrl(r.file)]
                        ELSE ToCatch(r, "select_old"))
           /\ UNCHANGED <<docs, profile, entries, files, docSeq, nReq, maxActive, fsFaultsLeft>>
      [] r.op = "updateProfile" /\ r.pc = "update_users" ->
           /\ Fault(ok)
           /\ SetReq(p, IF ok THEN [r EXCEPT !.pc = "update_profile"]
                        ELSE ToCatch(r, "update_users"))
           /\ UNCHANGED <<docs, profile, entries, files, docSeq, nReq, maxActive, fsFaultsLeft>>
      [] r.op = "updateProfile" /\ r.pc = "update_profile" ->
           \* client.query(profileUpdateQuery, [...]) rejects when the values do
           \* not match the placeholders
           /\ ~RowLocked(p)
           /\ ~ProfileUpdateBinds => ok
           /\ Fault(ok)
           /\ SetReq(p, IF ok /\ ProfileUpdateBinds
                        THEN [r EXCEPT !.pc = "delete_old", !.finalUrl = final,
                                       !.hasPend = TRUE,
                                       !.pend = ProfileUpdate(seen, r.body, final)]
                        ELSE [ToCatch(r, "update_profile") EXCEPT !.finalUrl = final])
           /\ UNCHANGED <<docs, profile, entries, files, docSeq, nReq, maxActive, fsFaultsLeft>>
      [] r.op = "updateProfile" /\ r.pc = "delete_old" ->
           /\ ok
           \* unlink of the superseded image, then updateProfileCompletion(userId, client)
           /\ \E fsOk \in FsOutcomes(IF supersedes THEN Basename(r.oldUrl) ELSE NoFile) :
                /\ FsFault(fsOk)
                /\ files' = IF supersedes /\ fsOk
                            THEN UnlinkIfExists(files, Basename(r.oldUrl)) ELSE files
                /\ SetReq(p, [r EXCEPT !.pc = IF fsOk THEN "score_counts"
                                              ELSE CatchUnlinkError("score_counts", "rollback"),
                                       !.withClient = TRUE,
                                       !.ret = "commit", !.onErr = "rollback",
                                       !.unlinked = r.unlinked \cup (files \ files'),
                                       !.unlinkFailed = ~fsOk,
                                       !.unlinkedInTx =
                                          IF r.txOpen
                                          THEN r.unlinkedInTx \cup (files \ files')
                                          ELSE r.unlinkedInTx])
           /\ UNCHANGED <<docs, profile, entries, docSeq, nReq, faultsLeft, maxActive>>
      [] r.op = "updateProfile" /\ r.pc = "commit" ->
           \* COMMIT of an aborted transaction completes as a rollback
           /\ Fault(ok)
           /\ profile' = IF ok /\ ~r.txAborted /\ r.hasPend THEN r.pend ELSE profile
           /\ SetReq(p, IF ok
                        THEN [r EXCEPT !.pc = "reselect", !.txOpen = FALSE,
                                       !.committed = ~r.txAborted, !.txAborted = FALSE,
                                       !.commits = r.commits + 1, !.hasPend = FALSE]
                        ELSE ToCatch(r, "commit"))
           /\ UNCHANGED <<docs, entries, files, docSeq, nReq, maxActive, fsFaultsLeft>>
      [] r.op = "updateProfile" /\ r.pc = "reselect" ->
           \* pool.query(SELECT ...), res.status(200), finally { client.release() }
           /\ Fault(ok)
           /\ SetReq(p, IF ok THEN Ended([r EXCEPT !.released = r.released + 1], "success")
                        ELSE ToCatch(r, "reselect"))
           /\ UNCHANGED <<docs, profile, entries, files, docSeq, nReq, maxActive, fsFaultsLeft>>
      [] r.op = "updateProfile" /\ r.pc = "rollback" ->
           /\ Fault(ok)
           /\ SetReq(p, IF ok
                        THEN [r EXCEPT !.pc = "unlink_new", !.txOpen = FALSE,
                                       !.txAborted = FALSE, !.hasPend = FALSE,
                                       !.rollbacks = r.rollbacks + 1, !.rollbackOk = TRUE]
                        ELSE EndWithError([r EXCEPT !.rollbacks = r.rollbacks + 1]))
           /\ UNCHANGED <<docs, profile, entries, files, docSeq, nReq, maxActive, fsFaultsLeft>>
      [] r.op = "updateProfile" /\ r.pc = "unlink_new" ->
           /\ ok
           \* if (newProfileImageUrl) { unlink it if it exists }; throw error
           /\ \E fsOk \in FsOutcomes(IF UpdateCatchTarget(r) # NullUrl
                                       THEN Basename(UpdateCatchTarget(r)) ELSE NoFile) :
                /\ FsFault(fsOk)
                /\ files' = IF UpdateCatchTarget(r) # NullUrl /\ fsOk
                            THEN UnlinkIfExists(files, Basename(UpdateCatchTarget(r)))
                            ELSE files
                /\ SetReq(p, EndWithError(
                       [r EXCEPT !.unlinked = r.unlinked \cup (files \ files'),
                                 !.unlinkFailed = ~fsOk,
                                 !.failedAt = IF fsOk THEN r.failedAt
                                              ELSE CatchUnlinkError(r.failedAt, "unlink")]))
           /\ UNCHANGED <<docs, profile, entries, docSeq, nReq, faultsLeft, maxActive>>
      [] OTHER -> FALSE

(* ----------------------------- initial state --------------------------- *)
\* document tables the requests start from: empty, one default resume of the
\* user, and the same next to another user's default resume and a document of
\* the user that is not a resume
InitDocSets ==
    {{},
     {Row(1, User, "resume", StorageUrl(11), TRUE)},
     {Row(1, User, "resume", StorageUrl(11), TRUE),
      Row(2, OtherUser, "resume", StorageUrl(12), TRUE),
      Row(3, User, "cover_letter", StorageUrl(14), FALSE)}}

\* the profile row created empty at registration, without and with an image
InitProfiles == {EmptyProfile, [EmptyProfile EXCEPT !.profile_image_url = StorageUrl(13)]}

NoEntries == [t \in Tables |-> {}]

InitStore(docSets, profiles) ==
    /\ docs \in docSets
    /\ \E pr \in profiles :
         profile = [pr EXCEPT !.profile_completion =
                                 FinalPercentage(pr, CountsOf(docs, NoEntries, User))]
    /\ entries = NoEntries
    /\ files = {FilePathOf(row.storage_url) : row \in docs}
               \cup (IF profile.profile_image_url # NullUrl
                     THEN {Basename(profile.profile_image_url)} ELSE {})
    /\ req = [p \in Procs |-> IdleReq]
    /\ docSeq = Cardinality(docs)
    /\ nReq = 0

\* requests one after the other, database failures possible
Init ==
    /\ InitStore(InitDocSets, InitProfiles)
    /\ faultsLeft = MaxFaults
    /\ maxActive = 1
    /\ fsFaultsLeft = 0

Next ==
    \E p \in Procs :
        \/ uploadResume(p)
        \/ deleteResume(p)
        \/ updateProfile(p)
        \/ updateProfileCompletion(p)

Spec == Init /\ [][Next]_vars

\* two workers, resume uploads only, no database failure
InitConc ==
    /\ InitStore(InitDocSets, InitProfiles)
    /\ faultsLeft = 0
    /\ maxActive = 2
    /\ fsFaultsLeft = 0

NextConc ==
    \E p \in Procs :
        \/ uploadResume(p)
        \/ updateProfileCompletion(p)

SpecConc == InitConc /\ [][NextConc]_vars

\* two workers, every score-affecting mutation, no database failure
InitScore ==
    /\ InitStore({{Row(1, User, "resume", StorageUrl(11), TRUE)}}, {EmptyProfile})
    /\ faultsLeft = 0
    /\ maxActive = 2
    /\ fsFaultsLeft = 0

NextScore ==
    \E p \in Procs :
        \/ uploadResume(p)
        \/ deleteResume(p)
        \/ addSkill(p)
        \/ removeSkill(p)
        \/ addExperience(p)
        \/ deleteExperience(p)
        \/ addEducation(p)
        \/ deleteEducation(p)
        \/ updateProfile(p)
        \/ updateProfileCompletion(p)

SpecScore == InitScore /\ [][NextScore]_vars


(* --------------------- the scorer on its own inputs --------------------- *)
\* largest row counts of a user the scorer is run on
MaxExperiences == 5
MaxEducations == 3
MaxSkills == 13
MaxResumes == 1

TextValues == {NullText, "x"}
YearValues == {NullNum, 0, 3}
ImageValues == {NullUrl, StorageUrl(13)}

\* every combination of the scored columns of a user_profiles row
AllProfiles ==
    [job_title : TextValues, location : TextValues, years_of_experience : YearValues,
     experience_level : TextValues, primary_industry : TextValues,
     profile_summary : TextValues, professional_summary : TextValues,
     website_url : TextValues, linkedin_url : TextValues, github_url : TextValues,
     profile_image_url : ImageValues, profile_completion : {0}]

FullProfile ==
    [job_title |-> "x", location |-> "x", years_of_experience |-> 3,
     experience_level |-> "x", primary_industry |-> "x",
     profile_summary |-> "x", professional_summary |-> "x",
     website_url |-> "x", linkedin_url |-> "x", github_url |-> "x",
     profile_image_url |-> StorageUrl(13), profile_completion |-> 0]

FewProfiles ==
    {EmptyProfile, FullProfile,
     [FullProfile EXCEPT !.years_of_experience = 0],
     [EmptyProfile EXCEPT !.job_title = "x", !.location = "x"],
     [EmptyProfile EXCEPT !.job_title = ""]}

AllCounts ==
    [experience_count : 0 .. MaxExperiences, education_count : 0 .. MaxEducations,
     skill_count : 0 .. MaxSkills, resume_count : 0 .. MaxResumes]

FewCounts ==
    {[experience_count |-> 0, education_count |-> 0, skill_count |-> 0, resume_count |-> 0],
     [experience_count |-> 1, education_count |-> 1, skill_count |-> 1, resume_count |-> 1],
     [experience_count |-> MaxExperiences, education_count |-> MaxEducations,
      skill_count |-> MaxSkills, resume_count |-> MaxResumes]}

\* every profile with a few counts, and every count with a few profiles
ScorerInputs == (AllProfiles \X FewCounts) \cup (FewProfiles \X AllCounts)

\* a call of updateProfileCompletion(userId) with nothing changed before it
recompute(p) ==
    LET r == req[p] IN
    CASE r.pc \in {"idle", "done"} ->
           /\ CanStart(p)
           /\ nReq' = nReq + 1
           /\ SetReq(p, [IdleReq EXCEPT !.op = "recompute", !.pc = "score_counts",
                                        !.ret = "recomputed", !.onErr = "recomputed",
                                        !.rid = nReq + 1])
           /\ UNCHANGED <<docs, profile, entries, files, docSeq, faultsLeft, maxActive, fsFaultsLeft>>
      [] r.op = "recompute" /\ r.pc = "recomputed" ->
           /\ SetReq(p, Ended(r, IF r.failedAt = "" THEN "success" ELSE "error"))
           /\ UNCHANGED <<docs, profile, entries, files, docSeq, nReq, faultsLeft, maxActive, fsFaultsLeft>>
      [] OTHER -> FALSE

\* a user with the rows the counts say, next to another user's resume
InitScorer ==
    /\ \E in \in ScorerInputs :
         /\ profile = in[1]
         /\ entries = [t \in Tables |->
                         {EntryRow(i, i) :
                            i \in 1 .. (CASE t = "user_experiences" -> in[2].experience_count
                                          [] t = "user_educations" -> in[2].education_count
                                          [] OTHER -> in[2].skill_count)}]
         /\ docs = {Row(i, User, "resume", StorageUrl(10 + i), i = 1) :
                      i \in 1 .. in[2].resume_count}
                   \cup {Row(MaxResumes + 1, OtherUser, "resume", StorageUrl(9), TRUE)}
    /\ files = {FilePathOf(row.storage_url) : row \in docs}
               \cup (IF profile.profile_image_url # NullUrl
                     THEN {Basename(profile.profile_image_url)} ELSE {})
    /\ req = [p \in Procs |-> IdleReq]
    /\ docSeq = Cardinality(docs)
    /\ nReq = 0
    /\ faultsLeft = 0
    /\ maxActive = 1
    /\ fsFaultsLeft = 0

NextScorer ==
    \E p \in Procs :
        \/ recompute(p)
        \/ updateProfileCompletion(p)

SpecScorer == InitScorer /\ [][NextScorer]_vars

(* ------------------------- concurrent deletions ------------------------- *)
\* two workers, resume deletions only, no database failure
InitDelete ==
    /\ InitStore(InitDocSets, InitProfiles)
    /\ faultsLeft = 0
    /\ maxActive = 2
    /\ fsFaultsLeft = 0

NextDelete ==
    \E p \in Procs :
        \/ deleteResume(p)
        \/ updateProfileCompletion(p)

SpecDelete == InitDelete /\ [][NextDelete]_vars

(* ------------- the scorer called with a transaction client -------------- *)
\* a call of updateProfileCompletion(userId, client) on a client whose
\* transaction is open, as updateProfile makes it, with what the caller sees:
\* the call returns or it throws
recomputeWithClient(p) ==
    LET r == req[p] IN
    CASE r.pc \in {"idle", "done"} ->
           /\ CanStart(p)
           /\ nReq' = nReq + 1
           /\ SetReq(p, [IdleReq EXCEPT !.op = "recomputeWithClient",
                                        !.pc = "score_counts", !.withClient = TRUE,
                                        !.txOpen = TRUE, !.begins = 1,
                                        !.ret = "returned", !.onErr = "threw",
                                        !.rid = nReq + 1])
           /\ UNCHANGED <<docs, profile, entries, files, docSeq, faultsLeft, maxActive,
                          fsFaultsLeft>>
      [] r.op = "recomputeWithClient" /\ r.pc \in {"returned", "threw"} ->
           /\ SetReq(p, Ended([r EXCEPT !.txOpen = FALSE],
                              IF r.pc = "returned" THEN "success" ELSE "error"))
           /\ UNCHANGED <<docs, profile, entries, files, docSeq, nReq, faultsLeft, maxActive,
                          fsFaultsLeft>>
      [] OTHER -> FALSE

InitWithClient ==
    /\ InitStore(InitDocSets, InitProfiles)
    /\ faultsLeft = MaxFaults
    /\ maxActive = 1
    /\ fsFaultsLeft = 0

NextWithClient ==
    \E p \in Procs :
        \/ recomputeWithClient(p)
        \/ updateProfileCompletion(p)

SpecWithClient == InitWithClient /\ [][NextWithClient]_vars

(* ------------------- requests with file-system failures ------------------ *)
\* failures of fs.unlinkSync the environment may inject
MaxFsFaults == 1

\* requests one after the other, one database failure, unlink failures possible
InitFs ==
    /\ InitStore(InitDocSets, InitProfiles)
    /\ faultsLeft = 1
    /\ maxActive = 1
    /\ fsFaultsLeft = MaxFsFaults

SpecFs == InitFs /\ [][Next]_vars


(* ============================== properties ============================= *)
DefaultResumes(d, userId) == {row \in ResumesOf(d, userId) : row.is_default_resume}

Finished(p, op) == req[p].op = op /\ req[p].pc = "done"

\* a committed locator names a file of the artifact store
Referenced(url) == FilePathOf(url) \in files

\* C1: in every committed state reached by uploadResume and deleteResume calls
\* run one after the other, failing or not, the user has 0 or 1 default resume
C1_AtMostOneDefault == Cardinality(DefaultResumes(docs, User)) \in {0, 1}

\* an upload committed next to an older resume of the user
C1_Witness ==
    /\ \E p \in Procs : Finished(p, "uploadResume") /\ req[p].committed
    /\ Cardinality(ResumesOf(docs, User)) >= 2
    /\ Cardinality(DefaultResumes(docs, User)) = 1

\* C5: when an uploadResume, updateProfile or deleteResume request has finished,
\* every committed document row and the committed profile image reference a file
\* that is present in the artifact store
C5_NoDanglingLocator ==
    (\E p \in Procs : req[p].pc = "done" /\ req[p].op \in {"uploadResume", "updateProfile",
                                                          "deleteResume"})
    => /\ \A row \in docs : Referenced(row.storage_url)
       /\ profile.profile_image_url # NullUrl => Referenced(profile.profile_image_url)

TxStatements == {"begin", "insert", "clear", "commit"}

\* C6: an uploadResume whose file was stored, whose transaction statement failed
\* and whose ROLLBACK ran ends with the file removed and no row committed for it
C6_OrphanRemoved ==
    \A p \in Procs :
        (/\ Finished(p, "uploadResume") /\ req[p].stored
         /\ req[p].failedAt \in TxStatements /\ req[p].rollbackOk)
        => /\ req[p].file \notin files
           /\ \A row \in docs : row.storage_url # StorageUrl(req[p].file)

C6_Witness ==
    \E p \in Procs :
        /\ Finished(p, "uploadResume") /\ req[p].stored
        /\ req[p].failedAt = "clear" /\ req[p].rollbackOk
        /\ req[p].file \in req[p].unlinked

\* C7: every uploadResume or updateProfile that ends in an error after its new
\* file was written has attempted ROLLBACK and has removed the new file
C7_ErrorCompensated ==
    \A p \in Procs :
        (/\ req[p].pc = "done" /\ req[p].op \in {"uploadResume", "updateProfile"}
         /\ req[p].stored /\ req[p].result = "error")
        => req[p].rollbacks >= 1 /\ req[p].file \notin files

BothUploaded(p, q) ==
    /\ p # q
    /\ Finished(p, "uploadResume") /\ req[p].committed
    /\ Finished(q, "uploadResume") /\ req[q].committed

CommittedLast(q, p) == req[q].rid \in req[p].openAtCommit

Overlapped(p, q) == CommittedLast(q, p) \/ CommittedLast(p, q)

RowOf(p) == {row \in docs : row.id = req[p].newId}

\* C2: with uploadResume requests of one user running concurrently under
\* read-committed isolation, no committed state holds two default resumes
C2_ConcurrentAtMostOneDefault ==
    \A r1, r2 \in DefaultResumes(docs, User) : r1 = r2

\* C3: of two overlapping uploads that both commit, the one that commits last
\* is the default afterwards and the other one is not
C3_LastCommitIsDefault ==
    \A p, q \in Procs :
        (BothUploaded(p, q) /\ CommittedLast(q, p))
        => /\ \A row \in RowOf(q) : row.is_default_resume
           /\ \A row \in RowOf(p) : ~row.is_default_resume

\* C4: after two overlapping uploads have both committed, both rows exist and
\* both files are in the artifact store
C4_NothingLostInRace ==
    \A p, q \in Procs :
        (BothUploaded(p, q) /\ Overlapped(p, q))
        => /\ RowOf(p) # {} /\ RowOf(q) # {}
           /\ req[p].file \in files /\ req[q].file \in files
           /\ \A row \in RowOf(p) \cup RowOf(q) : Referenced(row.storage_url)

C4_Witness ==
    \E p, q \in Procs :
        /\ BothUploaded(p, q) /\ Overlapped(p, q)
        /\ Cardinality(RowOf(p) \cup RowOf(q)) = 2
        /\ {req[p].file, req[q].file} \subseteq files

\* C10: when concurrent score-affecting mutations of the user have all finished
\* without error, the stored profile_completion is the score of the committed
\* profile fields and counts
C10_ScoreNotStale ==
    (\A p \in Procs : req[p].pc \in {"idle", "done"} /\ req[p].result # "error")
    => profile.profile_completion = FinalPercentage(profile, CountsOf(docs, entries, User))

ScoreSteps == {"score_counts", "score_profile", "score_write"}

\* C11: whenever a request is at a step of the score recomputation (the count
\* query, the profile query or the score write), the recomputation runs on the
\* request's own database client inside its open transaction, after BEGIN and
\* before COMMIT
C11_ScoreInsideTransaction ==
    \A p \in Procs :
        req[p].pc \in ScoreSteps => (req[p].withClient /\ req[p].txOpen)

\* C12: no uploadResume or deleteResume request ends with its document change
\* committed and the profile_completion not rewritten
C12_DocumentAndScoreTogether ==
    \A p \in Procs :
        (/\ req[p].pc = "done"
         /\ req[p].op \in {"uploadResume", "deleteResume"}
         /\ req[p].committed)
        => req[p].wroteScore

\* C13: an updateProfile or uploadResume request that has begun a transaction
\* ends having issued exactly one of COMMIT and ROLLBACK, never both and never
\* neither
C13_ExactlyOneOfCommitRollback ==
    \A p \in Procs :
        (/\ req[p].pc = "done"
         /\ req[p].op \in {"updateProfile", "uploadResume"}
         /\ req[p].begins > 0)
        => req[p].commits + req[p].rollbacks = 1

\* C14: a request never releases a client it has not acquired nor releases it
\* twice, and when the handler has ended (with a response, a thrown error or a
\* failed ROLLBACK) every client it acquired has been released exactly once
C14_ClientReleasedOnce ==
    \A p \in Procs :
        /\ req[p].released <= req[p].acquired
        /\ req[p].acquired <= 1
        /\ req[p].pc \in {"idle", "done"} => req[p].released = req[p].acquired

C14_Witness ==
    \E p \in Procs :
        /\ req[p].pc = "done" /\ req[p].result = "error"
        /\ req[p].rollbacks = 1 /\ ~req[p].rollbackOk
        /\ req[p].acquired = 1 /\ req[p].released = 1

\* R1 ended before R2 started, and both uploads committed and ended with
\* no failure
Sequential(p, q) ==
    /\ BothUploaded(p, q)
    /\ req[p].result = "success" /\ req[q].result = "success"
    /\ req[p].rid \in req[q].startedAfter

\* C15: when upload R2 starts after upload R1 of the same user has ended, and
\* neither fails, then both rows exist, R2's row is the default, R1's row is not,
\* and neither upload deleted a file
C15_SequentialUploads ==
    \A p, q \in Procs :
        Sequential(p, q)
        => /\ Cardinality(RowOf(p) \cup RowOf(q)) = 2
           /\ \A row \in RowOf(q) : row.is_default_resume
           /\ \A row \in RowOf(p) : ~row.is_default_resume
           /\ req[p].unlinked = {} /\ req[q].unlinked = {}
           /\ {req[p].file, req[q].file} \subseteq files
           /\ \A row \in docs : Referenced(row.storage_url)

C15_Witness ==
    \E p, q \in Procs :
        /\ Sequential(p, q)
        /\ DefaultResumes(docs, User) = RowOf(q)
        /\ Cardinality(ResumesOf(docs, User)) >= 2

(* the score as the formula of the completion score states it, doubled to
   keep the half points of the education term *)
NonEmptyText(v) == v # NullText /\ v # ""
HasValue(v) == v # NullNum
CountOf(S) == Cardinality(S)

StatedSum2(pr, c) ==
    10 * (CountOf({v \in {<<1, pr.job_title>>, <<2, pr.location>>,
                          <<3, pr.experience_level>>, <<4, pr.primary_industry>>} :
                     NonEmptyText(v[2])})
          + (IF HasValue(pr.years_of_experience) THEN 1 ELSE 0))
    + 20 * CountOf({v \in {<<1, pr.profile_summary>>, <<2, pr.professional_summary>>} :
                      NonEmptyText(v[2])})
    + 2 * Min(10, (IF NonEmptyText(pr.website_url) THEN 3 ELSE 0)
                  + (IF NonEmptyText(pr.linkedin_url) THEN 4 ELSE 0)
                  + (IF NonEmptyText(pr.github_url) THEN 3 ELSE 0))
    + (IF pr.profile_image_url # NullUrl THEN 10 ELSE 0)
    + (IF c.experience_count > 0 THEN 2 * Min(15, 5 + 2 * c.experience_count) ELSE 0)
    + (IF c.education_count > 0 THEN Min(20, 10 + 5 * c.education_count) ELSE 0)
    + (IF c.skill_count > 0 THEN 2 * Min(15, 3 + c.skill_count) ELSE 0)
    + (IF c.resume_count > 0 THEN 20 ELSE 0)

StatedScore(pr, c) ==
    LET rounded == (StatedSum2(pr, c) + 1) \div 2
    IN  IF rounded < 0 THEN 0 ELSE IF rounded > 100 THEN 100 ELSE rounded

Recomputed(p) == Finished(p, "recompute") /\ req[p].wroteScore

\* C16: after a recomputation the stored profile_completion is an integer of
\* 0..100 equal to clamp(round(S), 0, 100), S being 5 per non-empty basic field
\* (a years_of_experience of 0 is a value), 10 per non-empty summary,
\* min(10, 3 website + 4 LinkedIn + 3 GitHub), 5 for an image, and for counts
\* above zero min(15, 5 + 2e), min(10, 5 + 2.5d), min(15, 3 + s) and 10
C16_ScoreFormula ==
    \A p \in Procs :
        Recomputed(p)
        => /\ profile.profile_completion \in 0 .. 100
           /\ profile.profile_completion
                = StatedScore(profile, CountsOf(docs, entries, User))

ScoredTexts(pr) ==
    {<<1, pr.job_title>>, <<2, pr.location>>, <<3, pr.experience_level>>,
     <<4, pr.primary_industry>>, <<5, pr.profile_summary>>,
     <<6, pr.professional_summary>>, <<7, pr.website_url>>, <<8, pr.linkedin_url>>,
     <<9, pr.github_url>>}

\* every scored field empty and every count zero
EmptyInput(pr, c) ==
    /\ \A v \in ScoredTexts(pr) : ~NonEmptyText(v[2])
    /\ ~HasValue(pr.years_of_experience)
    /\ pr.profile_image_url = NullUrl
    /\ c.experience_count = 0 /\ c.education_count = 0
    /\ c.skill_count = 0 /\ c.resume_count = 0

\* every scored field set, 5 experiences, 3 educations, 13 skills and a resume,
\* or more
FullInput(pr, c) ==
    /\ \A v \in ScoredTexts(pr) : NonEmptyText(v[2])
    /\ HasValue(pr.years_of_experience)
    /\ pr.profile_image_url # NullUrl
    /\ c.experience_count >= 5 /\ c.education_count >= 3
    /\ c.skill_count >= 13 /\ c.resume_count >= 1

\* C17: after a recomputation, a profile with every scored field empty and no
\* experience, education, skill or resume row has profile_completion 0, and a
\* profile with every field set, an image, all three links, at least 5
\* experiences, 3 educations, 13 skills and a resume has profile_completion 100,
\* the sum before clamping being 110 when years_of_experience is not 0
C17_EmptyAndFullProfile ==
    \A p \in Procs :
        Recomputed(p)
        => LET c == CountsOf(docs, entries, User) IN
           /\ EmptyInput(profile, c) => profile.profile_completion = 0
           /\ FullInput(profile, c)
              => /\ profile.profile_completion = 100
                 /\ profile.years_of_experience # 0
                    => CompletionPercentage2(profile, c) = 2 * 110

C17_Witness ==
    \E p \in Procs :
        /\ Recomputed(p)
        /\ FullInput(profile, CountsOf(docs, entries, User))
        /\ profile.profile_completion = 100

C17_WitnessEmpty ==
    \E p \in Procs :
        /\ Recomputed(p)
        /\ EmptyInput(profile, CountsOf(docs, entries, User))

DeleteStep(p, at) ==
    /\ req[p].op = "deleteResume" /\ req[p].pc = at
    /\ req'[p] # req[p]

\* C19: a deleteResume request removes no row but the one it names, and it
\* changes no field of a remaining row: when the removed row was the default
\* the user is left with no default resume, otherwise the defaults stay as
\* they were
C19_DeleteOnlyTarget ==
    [][\A p \in Procs :
         (\E at \in {"select", "delete", "unlink", "respond", "outer_catch"} :
            DeleteStep(p, at))
         => /\ docs' \subseteq docs
            /\ \A row \in docs \ docs' :
                 row.id = req[p].target /\ row.user_id = User
            /\ DefaultResumes(docs', User) = DefaultResumes(docs, User) \ (docs \ docs')
            /\ (\E row \in docs \ docs' : row.is_default_resume)
               => DefaultResumes(docs', User) = {}]_vars

C19_Witness ==
    \E p \in Procs :
        /\ Finished(p, "deleteResume") /\ req[p].committed
        /\ ResumesOf(docs, User) # {}
        /\ DefaultResumes(docs, User) = {}

\* the id names no resume of the user: no such row, another user's row, or a
\* row that is not a resume
NoOwnResume(id) ==
    \A row \in docs :
        ~(row.id = id /\ row.user_id = User /\ row.document_type = "resume")

\* C20: a deleteResume request whose id names no resume of the user, and whose
\* lookup does not fail, ends at the lookup with the not-found response and
\* leaves the rows, the files and the profile_completion as they were
C20_DeleteNotFound ==
    [][\A p \in Procs :
         (/\ DeleteStep(p, "select")
          /\ NoOwnResume(req[p].target)
          /\ req'[p].failedAt = "")
         => /\ req'[p].pc = "done" /\ req'[p].result = "notFound"
            /\ UNCHANGED <<docs, files, profile>>]_vars

C20_Witness ==
    \E p \in Procs :
        /\ Finished(p, "deleteResume") /\ req[p].result = "notFound"
        /\ \E row \in docs :
             /\ row.id = req[p].target
             /\ row.user_id = User /\ row.document_type # "resume"

C20_WitnessOtherUser ==
    \E p \in Procs :
        /\ Finished(p, "deleteResume") /\ req[p].result = "notFound"
        /\ \E row \in docs : row.id = req[p].target /\ row.user_id = OtherUser

\* C21: a failed file deletion never changes what the caller is told: on the
\* rollback path of uploadResume and updateProfile the request ends with the
\* database error that caused the rollback, and a deleteResume (or updateProfile)
\* request in which no database statement failed still ends with success and its
\* database change committed
C21_UnlinkFailureKeepsOutcome ==
    \A p \in Procs :
        (req[p].pc = "done" /\ req[p].unlinkFailed)
        => /\ req[p].failedAt # "unlink"
           /\ (req[p].op \in {"uploadResume", "updateProfile"} /\ req[p].rollbacks > 0)
              => (req[p].result = "error" /\ req[p].failedAt # "")
           /\ (req[p].op \in {"deleteResume", "updateProfile"} /\ req[p].failedAt = "")
              => /\ req[p].result = "success" /\ req[p].committed
                 /\ req[p].op = "deleteResume" => NoOwnResume(req[p].target)

C21_Witness ==
    \E p \in Procs :
        /\ Finished(p, "deleteResume") /\ req[p].unlinkFailed
        /\ req[p].result = "success" /\ req[p].committed

C21_WitnessRollback ==
    \E p \in Procs :
        /\ Finished(p, "uploadResume") /\ req[p].unlinkFailed
        /\ req[p].rollbackOk /\ req[p].file \in files

C21_WitnessImage ==
    \E p \in Procs :
        /\ Finished(p, "updateProfile") /\ req[p].unlinkFailed
        /\ req[p].result = "error"

\* C22: the stored profile_completion changes only in the score write of
\* updateProfileCompletion, and to the score of the fields and counts it read;
\* no other step of a request, and no value of a request body, changes it
C22_CompletionWrittenByScorerOnly ==
    [][profile' # profile
       => \E p \in Procs :
            /\ req[p].pc = "score_write"
            /\ profile' = [profile EXCEPT !.profile_completion =
                                             StatedScore(req[p].prof, req[p].counts)]
            /\ profile'.profile_completion # ClientCompletion]_vars

C22_Witness ==
    \E p \in Procs :
        /\ req[p].op = "updateProfile" /\ req[p].pc = "rollback"
        /\ req[p].failedAt = "update_profile"
        /\ req[p].body.profile_completion = ClientCompletion
        /\ profile.profile_completion # ClientCompletion

\* the rows worker p's transaction sees: the committed rows and its own
\* insert, with the flags its clearing UPDATE has reset
TxView(p) ==
    {IF row.id \in req[p].clr THEN [row EXCEPT !.is_default_resume = FALSE] ELSE row :
       row \in docs \cup req[p].ins}

\* C23: in uploadResume's transaction the clearing UPDATE runs only after the
\* INSERT, it never resets the flag of the inserted row, and from the INSERT
\* until the transaction commits or a statement fails the transaction sees the
\* inserted row as a default resume of the user
C23_InsertThenClear ==
    \A p \in Procs :
        (req[p].op = "uploadResume" /\ req[p].txOpen)
        => /\ req[p].pc \in {"insert", "clear", "commit", "rollback", "done"}
           /\ req[p].pc = "insert" => (req[p].ins = {} /\ req[p].clr = {})
           /\ req[p].pc \in {"clear", "commit"}
              => /\ req[p].ins # {}
                 /\ req[p].newId \notin req[p].clr
                 /\ DefaultResumes(TxView(p), User) # {}
                 /\ \A row \in req[p].ins : row.is_default_resume
           /\ req[p].pc = "clear" => req[p].clr = {}

C23_Witness ==
    \E p \in Procs :
        /\ req[p].op = "uploadResume" /\ req[p].txOpen /\ req[p].pc = "commit"
        /\ req[p].clr # {}
        /\ Cardinality(DefaultResumes(TxView(p), User)) = 1
        /\ Cardinality(ResumesOf(TxView(p), User)) >= 2

\* C24: when a query of the score recomputation has failed on the transaction
\* client, the failure reaches the caller: the call does not return normally
\* (so that the caller rolls back and reports the error), and no updateProfile
\* request ends with success after a query of its recomputation failed
C24_ScoreFailurePropagates ==
    \A p \in Procs :
        (/\ req[p].pc = "done"
         /\ req[p].op \in {"updateProfile", "recomputeWithClient"}
         /\ req[p].failedAt \in ScoreSteps)
        => req[p].result = "error"

\* C25: an updateProfile request in a run with no database and no file-system
\* failure ends with success and its profile changes committed, the profile
\* UPDATE being given as many values as it has placeholders
C25_UpdateProfileCommits ==
    \A p \in Procs :
        (Finished(p, "updateProfile") /\ faultsLeft = MaxFaults /\ ~req[p].unlinkFailed)
        => (req[p].result = "success" /\ req[p].committed)

\* C26: when an updateProfile request without a file has built the values of
\* its profile UPDATE, the value for profile_image_url is the locator the
\* profile had when the request started, and the request deletes no file
C26_ImageKeptWithoutFile ==
    \A p \in Procs :
        (/\ req[p].op = "updateProfile" /\ req[p].file = NoFile
         /\ req[p].failedAt = "update_profile")
        => (req[p].finalUrl = req[p].imgAtStart /\ req[p].unlinked = {})

\* C27: a profile whose only set field is years_of_experience = 0, with no
\* experience, education, skill or resume row, is scored 5
C27_ZeroYearsScoresFive ==
    \A p \in Procs :
        (/\ Recomputed(p)
         /\ profile.years_of_experience = 0
         /\ EmptyInput([profile EXCEPT !.years_of_experience = NullNum],
                       CountsOf(docs, entries, User)))
        => profile.profile_completion = 5

\* C28: an uploadResume request ends with success exactly when its document
\* row was committed
C28_SuccessIffCommitted ==
    \A p \in Procs :
        Finished(p, "uploadResume")
        => ((req[p].result = "success") <=> req[p].committed)

\* neither request had ended when the other started
Concurrent(p, q) ==
    /\ p # q
    /\ req[p].rid \notin req[q].startedAfter
    /\ req[q].rid \notin req[p].startedAfter

\* C29: of two concurrent deleteResume requests for the same resume of which
\* one succeeded, the other one reports not-found, has deleted no file and has
\* written no score; the row is gone and the two did not unlink the same file
C29_ConcurrentDeletes ==
    \A p, q \in Procs :
        (/\ Concurrent(p, q)
         /\ Finished(p, "deleteResume") /\ Finished(q, "deleteResume")
         /\ req[p].target = req[q].target
         /\ req[p].result = "success")
        => /\ req[q].result = "notFound"
           /\ req[q].unlinked = {} /\ ~req[q].wroteScore /\ ~req[q].committed
           /\ req[p].unlinked \cap req[q].unlinked = {}
           /\ NoOwnResume(req[p].target)

C29_Witness ==
    \E p, q \in Procs :
        /\ Concurrent(p, q)
        /\ Finished(p, "deleteResume") /\ Finished(q, "deleteResume")
        /\ req[p].target = req[q].target
        /\ req[p].result = "success" /\ req[q].result = "notFound"
        /\ req[p].unlinked # {}

TextFields ==
    {"job_title", "location", "experience_level", "primary_industry", "profile_summary",
     "professional_summary", "website_url", "linkedin_url", "github_url"}

CountFields == {"experience_count", "education_count", "skill_count", "resume_count"}

\* the inputs that differ from (pr, c) in one place: one set field or the image
\* emptied, or one count one lower
OneLess(pr, c) ==
    {<<[pr EXCEPT ![f] = NullText], c>> : f \in {g \in TextFields : NonEmptyText(pr[g])}}
    \cup (IF HasValue(pr.years_of_experience)
          THEN {<<[pr EXCEPT !.years_of_experience = NullNum], c>>} ELSE {})
    \cup (IF pr.profile_image_url # NullUrl
          THEN {<<[pr EXCEPT !.profile_image_url = NullUrl], c>>} ELSE {})
    \cup {<<pr, [c EXCEPT ![f] = c[f] - 1]>> : f \in {g \in CountFields : c[g] > 0}}

\* C30: the value a recomputation stores is not below the score of any inputs
\* that have one field or the image empty instead of set, or one count one
\* lower, everything else being the same
C30_ScoreMonotone ==
    \A p \in Procs :
        Recomputed(p)
        => \A in \in OneLess(profile, CountsOf(docs, entries, User)) :
             FinalPercentage(in[1], in[2]) <= profile.profile_completion

C30_Witness ==
    \E p \in Procs :
        /\ Recomputed(p)
        /\ \E in \in OneLess(profile, CountsOf(docs, entries, User)) :
             FinalPercentage(in[1], in[2]) < profile.profile_completion
        /\ \E in \in OneLess(profile, CountsOf(docs, entries, User)) :
             FinalPercentage(in[1], in[2]) = profile.profile_completion

====
